---------------------------- MODULE Spec2Model ----------------------------
(***************************************************************************)
(* Fast-Search-Rust: the search engine of src/src/lib.rs (run_search, its  *)
(* per-entry callback, process_file_content) and the consumer of           *)
(* src/src/main.rs (FastSearchApp::update, FastSearchApp::execute_search). *)
(*                                                                         *)
(* Bytes are integers 0..255, strings and file contents are sequences of   *)
(* bytes, offsets are 0-based as in the source (byte i of s is s[i + 1]).   *)
(* An Option is a set: {} is None and {v} is Some(v).  A path is the id of  *)
(* its entry in the file system tree.                                      *)
(***************************************************************************)
EXTENDS Integers, Sequences, FiniteSets, TLC

VARIABLES
    fs,     \* the directory tree under the root: entry id -> entry
    app,    \* the fields of FastSearchApp, and the pending repaint request
    flag,   \* the AtomicBool cancellation flags, by allocation number
    run,    \* per run_search call: its SearchConfig, walker and scanned_count
    chan,   \* per run: the mpsc channel (queue, sender alive, receiver alive)
    wk      \* per run and walker thread: the position and locals of its callback

vars == <<fs, app, flag, run, chan, wk>>

(***************************************************************************)
(* Bounds of the model.                                                    *)
(***************************************************************************)
\* longest file content drawn for process_file_content
MaxLen == 4
\* longest pattern drawn for process_file_content
MaxPat == 2
\* number of files in the wide directory used for progress accounting
WideFiles == 46
\* longest pattern AhoCorasickBuilder::build succeeds on; it stands for the
\* limits of the aho-corasick crate on pattern length and number of states
BuildLimit == 3

(***************************************************************************)
(* Program constants.                                                      *)
(***************************************************************************)
NUL == 0
LF == 10
CR == 13
Comma == 44
ProbeLen == 1024
ProgressBatch == 50
DefaultMaxDepth == 255

Workers == {1, 2}
Runs == {1, 2}

None == {}
Some(v) == {v}
Unwrap(o) == CHOOSE v \in o : TRUE

Min(S) == CHOOSE m \in S : \A n \in S : m <= n
Max(S) == CHOOSE m \in S : \A n \in S : m >= n

\* s[lo..hi), 0-based, as a sequence
Slice(s, lo, hi) == [i \in 1..(hi - lo) |-> s[lo + i]]

(***************************************************************************)
(* Strings.                                                                *)
(***************************************************************************)
\* u8::to_ascii_lowercase / char::to_lowercase on the ASCII range
LowerByte(b) == IF b \in 65..90 THEN b + 32 ELSE b
to_lowercase(s) == [i \in 1..Len(s) |-> LowerByte(s[i])]

\* char::is_whitespace on the bytes the model draws (tab, LF, VT, FF, CR, space)
IsWhitespace(b) == b \in {9, 10, 11, 12, 13, 32}

\* str::trim
trim(s) ==
    LET keep == {i \in 1..Len(s) : ~IsWhitespace(s[i])}
    IN  IF keep = {} THEN <<>> ELSE Slice(s, Min(keep) - 1, Max(keep))

\* str::split(','): the pieces between the commas, empty pieces included
split(s) ==
    LET cuts == {i \in 1..Len(s) : s[i] = Comma}
        starts == {0} \cup cuts
        end(b) == Min({c \in cuts \cup {Len(s) + 1} : c > b})
    IN  {Slice(s, b, end(b) - 1) : b \in starts}

\* String::from_utf8_lossy, on contents whose bytes >= 128 never begin or
\* continue a valid sequence (the model draws only 0xFF): each such byte
\* becomes U+FFFD, every ASCII byte stands for itself.
from_utf8_lossy(bytes) ==
    [i \in 1..Len(bytes) |-> IF bytes[i] < 128 THEN bytes[i] ELSE 65533]

\* Path::extension of a file name: None without an embedded dot or when the
\* only dot leads the name, else what follows the last dot
extension(name) ==
    LET dots == {i \in 2..Len(name) : name[i] = 46}
    IN  IF dots = {} THEN None ELSE Some(Slice(name, Max(dots), Len(name)))

(***************************************************************************)
(* The aho-corasick automaton of one pattern: [pattern, ignore_case].      *)
(***************************************************************************)
ByteEq(ac, x, y) == IF ac.ignore_case THEN LowerByte(x) = LowerByte(y) ELSE x = y

\* the pattern occurs in hay at offset s
MatchAt(ac, hay, s) ==
    /\ s >= 0
    /\ s + Len(ac.pattern) <= Len(hay)
    /\ \A k \in 1..Len(ac.pattern) : ByteEq(ac, hay[s + k], ac.pattern[k])

\* AhoCorasick::is_match
is_match(ac, hay) == \E s \in 0..Len(hay) : MatchAt(ac, hay, s)

\* The next item of AhoCorasick::find_iter resuming at offset at: the leftmost
\* occurrence starting at or after at, or None.
find_at(ac, hay, at) ==
    LET S == {s \in at..Len(hay) : MatchAt(ac, hay, s)}
    IN  IF S = {} THEN None ELSE Some(Min(S))

\* an iteration that yields overlapping occurrences too
resume_after_overlapping(ac, s) == s + 1

\* Where find_iter resumes after a match at s: past the match, so that the
\* matches it yields do not overlap (one byte further after an empty match).
resume_after(ac, s) == IF Len(ac.pattern) = 0 THEN s + 1 ELSE s + Len(ac.pattern)

(***************************************************************************)
(* memchr, memrchr, bytecount over slices of the mapped file.              *)
(***************************************************************************)
\* bytecount::count(&mmap[lo..hi], b)
count(mmap, lo, hi, b) == Cardinality({i \in lo..(hi - 1) : mmap[i + 1] = b})

\* memchr(b, &mmap[lo..hi]): offset within the slice of the first b
memchr(b, mmap, lo, hi) ==
    LET S == {i \in lo..(hi - 1) : mmap[i + 1] = b}
    IN  IF S = {} THEN None ELSE Some(Min(S) - lo)

\* memrchr(b, &mmap[..hi]): offset of the last b
memrchr(b, mmap, hi) ==
    LET S == {i \in 0..(hi - 1) : mmap[i + 1] = b}
    IN  IF S = {} THEN None ELSE Some(Max(S))

(***************************************************************************)
(* SearchResult.  Every event carries the same fields so that events of    *)
(* different variants can share a queue; pos is the byte offset of the     *)
(* occurrence a ContentMatch reports, which the program does not send and  *)
(* the claims about order and counts refer to.                             *)
(***************************************************************************)
ContentMatch(path, line_number, line_text, pos) ==
    [type |-> "ContentMatch", path |-> path, line_number |-> line_number,
     line_text |-> line_text, pos |-> pos, delta |-> 0]

FileNameMatch(path) ==
    [type |-> "FileNameMatch", path |-> path, line_number |-> 0,
     line_text |-> <<>>, pos |-> 0, delta |-> 0]

ProgressUpdate(n) ==
    [type |-> "ProgressUpdate", path |-> 0, line_number |-> 0,
     line_text |-> <<>>, pos |-> 0, delta |-> n]

IsMatchEvent(ev) == ev.type \in {"ContentMatch", "FileNameMatch"}

(***************************************************************************)
(* process_file_content: what one iteration of its loop computes for the   *)
(* occurrence at match_start.                                              *)
(***************************************************************************)
\* the newlines counted again from the start of the file at each occurrence
next_line_number_recount(mmap, current_line_number, last_counted_pos, match_start) ==
    current_line_number + count(mmap, 0, match_start, LF)

\* line 196: the running line counter after the newlines of
\* mmap[last_counted_pos..match_start] are added
next_line_number(mmap, current_line_number, last_counted_pos, match_start) ==
    current_line_number + count(mmap, last_counted_pos, match_start, LF)

\* the line taken to start on the newline before the occurrence
line_start_on_newline(mmap, match_start) ==
    LET p == memrchr(LF, mmap, match_start)
    IN  IF p = None THEN 0 ELSE Unwrap(p)

\* line 199
line_start(mmap, match_start) ==
    LET p == memrchr(LF, mmap, match_start)
    IN  IF p = None THEN 0 ELSE Unwrap(p) + 1

\* line 200
line_end(mmap, match_start) ==
    LET p == memchr(LF, mmap, match_start, Len(mmap))
    IN  IF p = None THEN Len(mmap) ELSE match_start + Unwrap(p)

\* lines 202-207
line_text(mmap, match_start) ==
    LET line_bytes == Slice(mmap, line_start(mmap, match_start),
                                  line_end(mmap, match_start))
        n == Len(line_bytes)
    IN  from_utf8_lossy(IF n > 0 /\ line_bytes[n] = CR
                        THEN Slice(line_bytes, 0, n - 1)
                        ELSE line_bytes)

(***************************************************************************)
(* run_search: the SearchConfig and the tests of the per-entry callback.   *)
(***************************************************************************)
\* lines 61-66 and 69-74
matcher(query, ignore_case) ==
    IF query = None THEN None
    ELSE Some([pattern |-> Unwrap(query), ignore_case |-> ignore_case])

\* lines 64-65 and 72-73: build returns an Err, which expect turns into a
\* panic of the thread that called run_search
build_fails(query) == query # None /\ Len(Unwrap(query)) > BuildLimit

\* lines 77-79
allowed_exts(file_types) ==
    IF file_types = None THEN None
    ELSE Some({to_lowercase(trim(ext)) : ext \in split(Unwrap(file_types))})

\* lines 82-86
SearchConfig(options) ==
    [text_matcher |-> matcher(options.text_query, options.ignore_case),
     file_matcher |-> matcher(options.file_query, options.ignore_case),
     allowed_exts |-> allowed_exts(options.file_types)]

NoConfig == [text_matcher |-> None, file_matcher |-> None, allowed_exts |-> None]

\* lines 182-188: the names pruned below the root, as bytes
SkipNames ==
    { <<87, 105, 110, 100, 111, 119, 115>>,
      <<80, 114, 111, 103, 114, 97, 109, 32, 70, 105, 108, 101, 115>>,
      <<80, 114, 111, 103, 114, 97, 109, 32, 70, 105, 108, 101, 115, 32, 40,
        120, 56, 54, 41>>,
      <<65, 112, 112, 68, 97, 116, 97>>,
      <<84, 101, 109, 112>>,
      <<46, 103, 105, 116>>,
      <<110, 111, 100, 101, 95, 109, 111, 100, 117, 108, 101, 115>> }

is_important(name) == name \notin SkipNames

\* lines 139-151: the value of file_name_match
file_name_match(conf, name) ==
    IF conf.file_matcher = None THEN TRUE
    ELSE is_match(Unwrap(conf.file_matcher), name)

\* the allow-list letting a file without an extension through
matches_ext_or_none(conf, name) ==
    IF conf.allowed_exts = None THEN TRUE
    ELSE LET e == extension(name)
         IN  IF e = None THEN TRUE
             ELSE to_lowercase(Unwrap(e)) \in Unwrap(conf.allowed_exts)

\* lines 156-161
matches_ext(conf, name) ==
    IF conf.allowed_exts = None THEN TRUE
    ELSE LET e == extension(name)
         IN  IF e = None THEN FALSE
             ELSE to_lowercase(Unwrap(e)) \in Unwrap(conf.allowed_exts)

\* a probe of the whole file
probe_whole_file(mmap) == memchr(NUL, mmap, 0, Len(mmap)) = None

\* line 166: the probe of the first min(1024, len) bytes finds no NUL
probe_is_text(mmap) ==
    memchr(NUL, mmap, 0, IF ProbeLen < Len(mmap) THEN ProbeLen ELSE Len(mmap)) = None

\* lines 154-164: File::open is called for this entry
file_opened(conf, entry) ==
    /\ conf.text_matcher # None
    /\ file_name_match(conf, entry.name)
    /\ entry.kind = "file"
    /\ matches_ext(conf, entry.name)

\* lines 154-167: process_file_content is called for this entry
content_scanned(conf, entry) ==
    /\ file_opened(conf, entry)
    /\ entry.openable
    /\ entry.mappable
    /\ probe_is_text(entry.data)

(***************************************************************************)
(* execute_search: the SearchOptions built from the fields of the app.     *)
(***************************************************************************)
\* the text query passed on as typed, blank or not
SearchOptions_any_text(a) ==
    [text_query |-> Some(a.search_term),
     file_query |-> IF trim(a.file_name) = <<>> THEN None ELSE Some(a.file_name),
     ignore_case |-> a.ignore_case,
     max_depth |-> a.max_depth,
     file_types |-> IF a.file_types = None \/ trim(Unwrap(a.file_types)) = <<>>
                    THEN None ELSE a.file_types]

\* file_types passed on as typed, blank or not
SearchOptions_any_types(a) ==
    [text_query |-> IF trim(a.search_term) = <<>> THEN None ELSE Some(a.search_term),
     file_query |-> IF trim(a.file_name) = <<>> THEN None ELSE Some(a.file_name),
     ignore_case |-> a.ignore_case,
     max_depth |-> a.max_depth,
     file_types |-> a.file_types]

\* main.rs lines 235-246
SearchOptions(a) ==
    [text_query |-> IF trim(a.search_term) = <<>> THEN None ELSE Some(a.search_term),
     file_query |-> IF trim(a.file_name) = <<>> THEN None ELSE Some(a.file_name),
     ignore_case |-> a.ignore_case,
     max_depth |-> a.max_depth,
     file_types |-> IF a.file_types = None \/ trim(Unwrap(a.file_types)) = <<>>
                    THEN None ELSE a.file_types]

(***************************************************************************)
(* The directory tree.  An entry is a directory, a regular file, or "err": *)
(* an entry for which the walker hands the callback an Err.  openable:     *)
(* File::open succeeds on it; mappable: Mmap::map succeeds on it.          *)
(***************************************************************************)
Entry(parent, name, kind, data, openable) ==
    [parent |-> parent, name |-> name, kind |-> kind, data |-> data,
     openable |-> openable, mappable |-> TRUE]

\* the entry as a file that opens and cannot be mapped
Unmappable(entry) == [entry EXCEPT !.mappable = FALSE]

RECURSIVE Depth(_, _)
Depth(t, e) == IF t[e].parent = 0 THEN 0 ELSE 1 + Depth(t, t[e].parent)

RECURSIVE Ascending(_)
Ascending(S) == IF S = {} THEN <<>> ELSE <<Min(S)>> \o Ascending(S \ {Min(S)})

\* the entries read_dir yields for directory e, in the order they are pushed
Children(t, e) == Ascending({c \in DOMAIN t : t[c].parent = e})

(***************************************************************************)
(* State.                                                                  *)
(***************************************************************************)
\* FastSearchApp::default (main.rs lines 43-66); cancel_token holds the
\* allocation number of the flag it points to, receiver the run whose
\* channel it reads.  repaint is a pending ctx.request_repaint().
AppDefault ==
    [search_term |-> <<>>, file_name |-> <<>>, ignore_case |-> FALSE,
     max_depth |-> DefaultMaxDepth, file_types |-> None, file_scanned |-> 0,
     has_searched |-> FALSE, results |-> <<>>, is_searching |-> FALSE,
     cancel_token |-> 0, receiver |-> None, repaint |-> FALSE]

\* a run_search call that has not been made.  panicked: the call ended in a
\* panic.  progress_sent and opened record, for the claims, the
\* ProgressUpdate events sent and the entries File::open was called on
\* (line 164).
RunIdle ==
    [started |-> FALSE, returned |-> FALSE, panicked |-> FALSE, conf |-> NoConfig,
     max_depth |-> 0, thread_token |-> 0, scanned_count |-> 0, stack |-> <<>>,
     quit_now |-> FALSE, progress_sent |-> 0, opened |-> {}]

\* no channel yet; disconnected records that try_recv returned Disconnected,
\* sent the number of match events tx.send was called with
ChanIdle ==
    [queue |-> <<>>, tx |-> FALSE, rx |-> FALSE, disconnected |-> FALSE, sent |-> 0]

ChanOpen ==
    [queue |-> <<>>, tx |-> TRUE, rx |-> TRUE, disconnected |-> FALSE, sent |-> 0]

\* a walker thread outside the callback.  saw_cancel and late record, for
\* the claims, that the thread's check read the flag as true and the
\* entries it sent match events for while the flag was true.
WorkerIdle ==
    [pc |-> "idle", entry |-> 0, current_val |-> 0, at |-> 0,
     last_counted_pos |-> 0, current_line_number |-> 0,
     saw_cancel |-> FALSE, late |-> {}]

InitWith(trees) ==
    /\ fs \in trees
    /\ app = AppDefault
    /\ flag = [k \in {0} \cup Runs |-> FALSE]
    /\ run = [r \in Runs |-> RunIdle]
    /\ chan = [r \in Runs |-> ChanIdle]
    /\ wk = [r \in Runs |-> [w \in Workers |-> WorkerIdle]]

(***************************************************************************)
(* The consumer: FastSearchApp::update and FastSearchApp::execute_search.  *)
(***************************************************************************)
RECURSIVE SumDelta(_)
SumDelta(q) == IF q = <<>> THEN 0 ELSE Head(q).delta + SumDelta(Tail(q))

\* the loop inserting what it reads in front of results
Polled_prepend(a) ==
    IF a.receiver = None THEN [a EXCEPT !.repaint = FALSE]
    ELSE LET r == Unwrap(a.receiver)
             q == chan[r].queue
             open == chan[r].tx
             searching == a.is_searching /\ open
         IN  [a EXCEPT !.results = SelectSeq(q, IsMatchEvent) \o @,
                       !.file_scanned = @ + SumDelta(q),
                       !.is_searching = searching,
                       !.receiver = IF open THEN @ ELSE None,
                       !.repaint = searching]

\* the loop ending on Disconnected as soon as the sender is gone, whatever
\* the channel still holds
Polled_disconnect_first(a) ==
    IF a.receiver = None THEN [a EXCEPT !.repaint = FALSE]
    ELSE LET r == Unwrap(a.receiver)
             q == IF chan[r].tx THEN chan[r].queue ELSE <<>>
             open == chan[r].tx
             searching == a.is_searching /\ open
         IN  [a EXCEPT !.results = @ \o SelectSeq(q, IsMatchEvent),
                       !.file_scanned = @ + SumDelta(q),
                       !.is_searching = searching,
                       !.receiver = IF open THEN @ ELSE None,
                       !.repaint = searching]

\* update, lines 75-97: the fields after the try_recv loop has drained what
\* the channel holds, ending on Empty or, with the sender gone, Disconnected
Polled(a) ==
    IF a.receiver = None THEN [a EXCEPT !.repaint = FALSE]
    ELSE LET r == Unwrap(a.receiver)
             q == chan[r].queue
             open == chan[r].tx
             searching == a.is_searching /\ open
         IN  [a EXCEPT !.results = @ \o SelectSeq(q, IsMatchEvent),
                       !.file_scanned = @ + SumDelta(q),
                       !.is_searching = searching,
                       !.receiver = IF open THEN @ ELSE None,
                       !.repaint = searching]

\* the channels after that loop: the queue read is empty, and the Receiver
\* is dropped with self.receiver = None
PolledChan(a) ==
    IF a.receiver = None THEN chan
    ELSE LET r == Unwrap(a.receiver)
         IN  [chan EXCEPT ![r].queue = <<>>, ![r].rx = chan[r].tx,
                          ![r].disconnected = ~chan[r].tx]

\* update with no click
UpdateIdle ==
    /\ app' = Polled(app)
    /\ chan' = PolledChan(app)
    /\ UNCHANGED <<fs, flag, run, wk>>

\* update with a click on Cancel, lines 160-167: the button is drawn when
\* is_searching holds after the poll of the same frame
UpdateCancel ==
    LET a == Polled(app)
    IN  /\ a.is_searching
        /\ flag' = [flag EXCEPT ![a.cancel_token] = TRUE]
        /\ app' = [a EXCEPT !.is_searching = FALSE]
        /\ chan' = PolledChan(app)
        /\ UNCHANGED <<fs, run, wk>>

\* run_search up to walker.run (lib.rs lines 59-105): the config, the walker
\* with the root as its only pending work, scanned_count at 0
RunStarted(options, token) ==
    [started |-> TRUE, returned |-> FALSE, panicked |-> FALSE,
     conf |-> SearchConfig(options),
     max_depth |-> options.max_depth, thread_token |-> token,
     scanned_count |-> 0, stack |-> <<1>>, quit_now |-> FALSE,
     progress_sent |-> 0, opened |-> {}]

\* run_search panicking in the expect of line 65 or 73: the call is over
\* before a config, a walker or a thread of the walker exists
RunPanicked(options, token) ==
    [RunIdle EXCEPT !.started = TRUE, !.returned = TRUE, !.panicked = TRUE,
                    !.max_depth = options.max_depth, !.thread_token = token]

\* the spawned thread of main.rs lines 249-252 up to walker.run
Dispatched(options, token) ==
    IF build_fails(options.text_query) \/ build_fails(options.file_query)
    THEN RunPanicked(options, token)
    ELSE RunStarted(options, token)

\* execute_search without the store of line 216: the flag of the previous
\* search is left as it is
cancel_tokens_keep_old(old, k) == [flag EXCEPT ![k] = FALSE]

\* main.rs lines 216-218: the flag self.cancel_token points to is set, then
\* the k-th flag is allocated, false
cancel_tokens(old, k) == [flag EXCEPT ![old] = TRUE, ![k] = FALSE]

\* execute_search without the clear of line 229
started_app_keeps_results(a, k) ==
    [a EXCEPT !.is_searching = TRUE, !.receiver = Some(k)]

\* main.rs lines 229-233: the fields of the app when the k-th call
\* dispatches a run
started_app(a, k) ==
    [a EXCEPT !.results = <<>>, !.is_searching = TRUE, !.receiver = Some(k)]

\* update with the fields typed as typed and a click on Start Search: the
\* k-th call of execute_search (main.rs lines 214-253).  The button is drawn
\* when is_searching is false after the poll of the same frame; update has
\* put Some(text) in file_types before (lines 129-133).  A thread that
\* panics drops tx as it unwinds.
UpdateStart(k, typed) ==
    LET a == Polled(app)
        c == PolledChan(app)
        b == [a EXCEPT !.search_term = typed.search_term,
                       !.file_name = typed.file_name,
                       !.file_types = Some(typed.file_types),
                       !.ignore_case = typed.ignore_case,
                       !.max_depth = typed.max_depth,
                       !.cancel_token = k,
                       !.has_searched = TRUE]
    IN  /\ ~a.is_searching
        /\ a.cancel_token = k - 1
        /\ flag' = cancel_tokens(a.cancel_token, k)
        /\ IF b.search_term = <<>> /\ b.file_name = <<>>
           THEN /\ app' = b
                /\ chan' = c
                /\ UNCHANGED <<run, wk>>
           ELSE /\ app' = started_app(b, k)
                /\ run' = [run EXCEPT ![k] = Dispatched(SearchOptions(b), k)]
                /\ chan' = [r \in Runs |->
                             IF r = k THEN [ChanOpen EXCEPT !.tx = ~run'[k].panicked]
                             ELSE IF a.receiver = Some(r) THEN [c[r] EXCEPT !.rx = FALSE]
                             ELSE c[r]]
                /\ UNCHANGED wk
        /\ UNCHANGED fs

(***************************************************************************)
(* The walker threads of one run (ignore's WalkParallel, driven by         *)
(* walker.run, lib.rs line 108) and the callback each runs per entry.      *)
(***************************************************************************)
Active(r) == run[r].started /\ ~run[r].returned

\* tx.send: the event joins the queue unless the Receiver is gone; sender
\* records in the event the run whose tx it was sent on
Sent(r, ev) ==
    [chan EXCEPT ![r].queue = IF chan[r].rx
                              THEN Append(@, ev @@ [sender |-> r]) ELSE @,
                 ![r].sent = IF IsMatchEvent(ev) THEN @ + 1 ELSE @]

\* a walker that reads the directories at depth max_depth too
Walked_one_deeper(rn, e, state) ==
    [rn EXCEPT !.quit_now = @ \/ state = "Quit",
               !.stack = IF state = "Continue" /\ fs[e].kind = "dir"
                            /\ Depth(fs, e) <= rn.max_depth
                         THEN @ \o Children(fs, e) ELSE @]

\* what the walker does with the WalkState the callback returns for entry e:
\* Quit stops every thread, Continue on a directory above max_depth pushes
\* its children, Skip pushes nothing
Walked(rn, e, state) ==
    [rn EXCEPT !.quit_now = @ \/ state = "Quit",
               !.stack = IF state = "Continue" /\ fs[e].kind = "dir"
                            /\ Depth(fs, e) < rn.max_depth
                         THEN @ \o Children(fs, e) ELSE @]

\* the test of line 117 taken on the value before the increment
progress_due_before(current_val) == current_val % ProgressBatch = 0

\* lines 117-119
progress_due(current_val) == (current_val + 1) % ProgressBatch = 0

\* a thread takes the pending work on top of the stack and calls the
\* callback, which starts with the fetch_add of line 116
Take(r, w) ==
    /\ Active(r)
    /\ wk[r][w].pc = "idle"
    /\ ~run[r].quit_now
    /\ run[r].stack # <<>>
    /\ LET n == Len(run[r].stack)
           current_val == run[r].scanned_count
       IN  /\ wk' = [wk EXCEPT ![r][w].entry = run[r].stack[n],
                               ![r][w].current_val = current_val,
                               ![r][w].pc = IF progress_due(current_val)
                                            THEN "progress" ELSE "check"]
           /\ run' = [run EXCEPT ![r].stack = SubSeq(@, 1, n - 1),
                                 ![r].scanned_count = current_val + 1]
    /\ UNCHANGED <<fs, app, flag, chan>>

\* line 118, reached when the test of line 117 holds
Progress(r, w) ==
    /\ Active(r)
    /\ wk[r][w].pc = "progress"
    /\ chan' = Sent(r, ProgressUpdate(ProgressBatch))
    /\ run' = [run EXCEPT ![r].progress_sent = @ + 1]
    /\ wk' = [wk EXCEPT ![r][w].pc = "check"]
    /\ UNCHANGED <<fs, app, flag>>

\* a callback that never sees the flag set
cancel_status_never(r) == FALSE

\* lines 120-122: the load of the flag
cancel_status(r) == flag[run[r].thread_token]

CheckCancel(r, w) ==
    /\ Active(r)
    /\ wk[r][w].pc = "check"
    /\ IF cancel_status(r)
       THEN /\ wk' = [wk EXCEPT ![r][w].pc = "idle", ![r][w].saw_cancel = TRUE]
            /\ run' = [run EXCEPT ![r] = Walked(@, wk[r][w].entry, "Quit")]
       ELSE /\ wk' = [wk EXCEPT ![r][w].pc = "entry"]
            /\ UNCHANGED run
    /\ UNCHANGED <<fs, app, flag, chan>>

\* the entries for which this thread has sent a match event with the flag set
Late(r, w) ==
    IF flag[run[r].thread_token] THEN wk[r][w].late \cup {wk[r][w].entry}
    ELSE wk[r][w].late

\* a callback that gives up the walk on an Err
early_return_err_quits(entry, depth) ==
    IF entry.kind = "err" THEN Some("Quit")
    ELSE IF depth > 0 /\ ~is_important(entry.name) THEN Some("Skip")
    ELSE None

\* a callback that passes over an entry of the skip-list and lets the
\* walker descend into it
early_return_skip_continues(entry, depth) ==
    IF entry.kind = "err" THEN Some("Continue")
    ELSE IF depth > 0 /\ ~is_important(entry.name) THEN Some("Continue")
    ELSE None

\* lines 125-133: the WalkState returned before any matching, or None
early_return(entry, depth) ==
    IF entry.kind = "err" THEN Some("Continue")
    ELSE IF depth > 0 /\ ~is_important(entry.name) THEN Some("Skip")
    ELSE None

\* lines 125-177 up to the call of process_file_content: the Err and the
\* skip-list returns, the FileNameMatch, then either the call (its locals
\* set, lines 191-192) or the return of Continue
Visit(r, w) ==
    LET e == wk[r][w].entry
        conf == run[r].conf
        early == early_return(fs[e], Depth(fs, e))
        named == early = None /\ conf.file_matcher # None
                 /\ file_name_match(conf, fs[e].name)
        late == IF named THEN Late(r, w) ELSE wk[r][w].late
        opened == IF early = None /\ file_opened(conf, fs[e]) THEN {e} ELSE {}
    IN  /\ Active(r)
        /\ wk[r][w].pc = "entry"
        /\ chan' = IF named THEN Sent(r, FileNameMatch(e)) ELSE chan
        /\ IF early = None /\ content_scanned(conf, fs[e])
           THEN /\ wk' = [wk EXCEPT ![r][w].pc = "scan", ![r][w].at = 0,
                                    ![r][w].last_counted_pos = 0,
                                    ![r][w].current_line_number = 1,
                                    ![r][w].late = late]
                /\ run' = [run EXCEPT ![r].opened = @ \cup opened]
           ELSE /\ wk' = [wk EXCEPT ![r][w].pc = "idle", ![r][w].late = late]
                /\ run' = [run EXCEPT ![r] =
                             Walked([@ EXCEPT !.opened = @ \cup opened], e,
                                    IF early = None THEN "Continue"
                                    ELSE Unwrap(early))]
        /\ UNCHANGED <<fs, app, flag>>

\* process_file_content, lines 194-214: one iteration of the loop over
\* ac.find_iter(mmap)
ScanEmit(r, w) ==
    LET l == wk[r][w]
        mmap == fs[l.entry].data
        ac == Unwrap(run[r].conf.text_matcher)
        mat == find_at(ac, mmap, l.at)
    IN  /\ Active(r)
        /\ l.pc = "scan"
        /\ mat # None
        /\ LET match_start == Unwrap(mat)
               line_number == next_line_number(mmap, l.current_line_number,
                                               l.last_counted_pos, match_start)
           IN  /\ chan' = Sent(r, ContentMatch(l.entry, line_number,
                                               line_text(mmap, match_start),
                                               match_start))
               /\ wk' = [wk EXCEPT ![r][w].current_line_number = line_number,
                                   ![r][w].last_counted_pos = match_start,
                                   ![r][w].at = resume_after(ac, match_start),
                                   ![r][w].late = Late(r, w)]
        /\ UNCHANGED <<fs, app, flag, run>>

\* the loop ends, process_file_content returns Ok, the callback Continue
ScanEnd(r, w) ==
    LET l == wk[r][w]
        ac == Unwrap(run[r].conf.text_matcher)
    IN  /\ Active(r)
        /\ l.pc = "scan"
        /\ find_at(ac, fs[l.entry].data, l.at) = None
        /\ wk' = [wk EXCEPT ![r][w].pc = "idle"]
        /\ run' = [run EXCEPT ![r] = Walked(@, l.entry, "Continue")]
        /\ UNCHANGED <<fs, app, flag, chan>>

\* a thread ends: a callback returned Quit, or no work is pending and no
\* other thread is in a callback that could push some
Stop(r, w) ==
    /\ Active(r)
    /\ wk[r][w].pc = "idle"
    /\ \/ run[r].quit_now
       \/ /\ run[r].stack = <<>>
          /\ \A v \in Workers : wk[r][v].pc \in {"idle", "done"}
    /\ wk' = [wk EXCEPT ![r][w].pc = "done"]
    /\ UNCHANGED <<fs, app, flag, run, chan>>

\* run_search returning with a clone of tx left alive
Return_keeps_sender(r) ==
    /\ Active(r)
    /\ \A w \in Workers : wk[r][w].pc = "done"
    /\ run' = [run EXCEPT ![r].returned = TRUE]
    /\ app' = [app EXCEPT !.repaint = TRUE]
    /\ UNCHANGED <<fs, flag, wk, chan>>

\* walker.run has joined its threads: run_search returns, dropping tx, and
\* the thread of execute_search requests a repaint (main.rs lines 249-252)
Return(r) ==
    /\ Active(r)
    /\ \A w \in Workers : wk[r][w].pc = "done"
    /\ run' = [run EXCEPT ![r].returned = TRUE]
    /\ chan' = [chan EXCEPT ![r].tx = FALSE]
    /\ app' = [app EXCEPT !.repaint = TRUE]
    /\ UNCHANGED <<fs, flag, wk>>

\* the steps of a walker thread; line 118 is Progress, apart
WorkerStep(r, w) ==
    \/ Take(r, w)
    \/ CheckCancel(r, w)
    \/ Visit(r, w)
    \/ ScanEmit(r, w)
    \/ ScanEnd(r, w)
    \/ Stop(r, w)

\* an update the pending repaint request brings about
RepaintUpdate == app.repaint /\ UpdateIdle

(***************************************************************************)
(* Inputs: directory trees and what the user types.                        *)
(***************************************************************************)
Typed(search_term, file_name, file_types, ignore_case, max_depth) ==
    [search_term |-> search_term, file_name |-> file_name,
     file_types |-> file_types, ignore_case |-> ignore_case,
     max_depth |-> max_depth]

\* A root directory "r" holding a.txt = "a\na", ba.txt = "aa", .git (pruned)
\* with a.txt inside, an entry the walker cannot read, and WideFiles empty
\* files "x?", which read_dir yields last and the threads so take first.
WideTree ==
    [e \in 1..(WideFiles + 6) |->
        IF e = 1 THEN Entry(0, <<114>>, "dir", <<>>, TRUE)
        ELSE IF e = 2
             THEN Entry(1, <<97, 46, 116, 120, 116>>, "file", <<97, LF, 97>>, TRUE)
        ELSE IF e = 3
             THEN Entry(1, <<98, 97, 46, 116, 120, 116>>, "file", <<97, 97>>, TRUE)
        ELSE IF e = 4 THEN Entry(1, <<46, 103, 105, 116>>, "dir", <<>>, TRUE)
        ELSE IF e = 5 THEN Entry(4, <<97, 46, 116, 120, 116>>, "file", <<97>>, TRUE)
        ELSE IF e = 6 THEN Entry(1, <<101>>, "err", <<>>, FALSE)
        ELSE Entry(1, <<120, 32 + e>>, "file", <<>>, TRUE)]

\* text "a", file name "a", types "txt"
WideTyped == { Typed(<<97>>, <<97>>, <<116, 120, 116>>, FALSE, DefaultMaxDepth) }

(***************************************************************************)
(* Spec: the program while the user starts one search.                     *)
(***************************************************************************)
Init == InitWith({WideTree})

Next ==
    \/ UpdateIdle
    \/ UpdateCancel
    \/ \E typed \in WideTyped : UpdateStart(1, typed)
    \/ \E w \in Workers : WorkerStep(1, w) \/ Progress(1, w)
    \/ Return(1)

Spec == Init /\ [][Next]_vars

(***************************************************************************)
(* ScanSpec: process_file_content as a function of its arguments.  The     *)
(* initial states are those in which thread 1 of run 1 has just called it  *)
(* (lines 191-192 done) on the root, a file of any content over a, A, LF,  *)
(* CR and the invalid byte 0xFF, with any pattern over a and LF.           *)
(***************************************************************************)
SeqsUpTo(S, n) == UNION {[1..k -> S] : k \in 0..n}

ScanContents == SeqsUpTo({97, 65, LF, CR, 255}, MaxLen)

ScanPatterns == SeqsUpTo({97, LF}, MaxPat) \ {<<>>}

ScanInit ==
    \E data \in ScanContents, pattern \in ScanPatterns, ignore_case \in BOOLEAN :
        LET a == [AppDefault EXCEPT !.search_term = pattern,
                                    !.ignore_case = ignore_case,
                                    !.file_types = Some(<<>>),
                                    !.has_searched = TRUE, !.is_searching = TRUE,
                                    !.cancel_token = 1, !.receiver = Some(1)]
            options == [SearchOptions(a) EXCEPT !.text_query = Some(pattern)]
        IN  /\ fs = <<Entry(0, <<102>>, "file", data, TRUE)>>
            /\ app = a
            /\ flag = [k \in {0} \cup Runs |-> k = 0]
            /\ run = [r \in Runs |->
                        IF r = 1
                        THEN [RunStarted(options, 1) EXCEPT !.stack = <<>>,
                                                            !.scanned_count = 1]
                        ELSE RunIdle]
            /\ chan = [r \in Runs |->
                        IF r = 1 THEN ChanOpen ELSE ChanIdle]
            /\ wk = [r \in Runs |-> [w \in Workers |->
                        IF r = 1 /\ w = 1
                        THEN [WorkerIdle EXCEPT !.pc = "scan", !.entry = 1,
                                                !.current_line_number = 1]
                        ELSE WorkerIdle]]

ScanNext == ScanEmit(1, 1) \/ ScanEnd(1, 1)

ScanSpec == ScanInit /\ [][ScanNext]_vars

\* the arguments of the call and what it has sent
ScanMmap == fs[1].data
ScanAc == Unwrap(run[1].conf.text_matcher)
ScanSent == chan[1].queue
ScanDone == wk[1][1].pc = "idle"

\* the start offsets at which the pattern occurs in the file
Occurrences == {s \in 0..Len(ScanMmap) : MatchAt(ScanAc, ScanMmap, s)}

\* the positions the ContentMatch events sent report
Reported == {ScanSent[i].pos : i \in 1..Len(ScanSent)}

(***************************************************************************)
(* C5 as stated: when the scan of a file has ended, the number of          *)
(* ContentMatch events equals the number of start offsets at which the     *)
(* query occurs, overlapping occurrences each counted.                     *)
(***************************************************************************)
C5_OnePerOccurrence ==
    ScanDone => Len(ScanSent) = Cardinality(Occurrences)

(***************************************************************************)
(* C5 as amended: when the scan has ended, the events are one per reported *)
(* position; the reported positions are occurrences, no two of them        *)
(* overlap, and every occurrence starts inside a reported one (the         *)
(* leftmost occurrence, then the leftmost one at or after the end of the   *)
(* last reported); so when no two occurrences overlap there is exactly one *)
(* event per occurrence, several on one line included.                     *)
(***************************************************************************)
C5_OnePerNonOverlapping ==
    LET m == Len(ScanAc.pattern)
    IN  /\ \A i \in 1..Len(ScanSent) :
              /\ ScanSent[i].type = "ContentMatch"
              /\ ScanSent[i].pos \in Occurrences
        /\ \A i, j \in 1..Len(ScanSent) :
              i < j => ScanSent[i].pos + m <= ScanSent[j].pos
        /\ ScanDone =>
              /\ \A s \in Occurrences :
                    \E e \in Reported : e <= s /\ s < e + m
              /\ (\A s, t \in Occurrences : s < t => s + m <= t)
                    => Len(ScanSent) = Cardinality(Occurrences)

\* a finished scan of a file with overlapping occurrences, of which two on
\* one line were reported
C5_Witness ==
    /\ ScanDone
    /\ Len(ScanSent) >= 2
    /\ ScanSent[1].line_number = ScanSent[2].line_number
    /\ Cardinality(Occurrences) > Len(ScanSent)

(***************************************************************************)
(* C6: the line_number of every ContentMatch is 1 plus the number of       *)
(* newline bytes strictly before the start of its occurrence, counted from *)
(* the start of the file.                                                  *)
(***************************************************************************)
C6_LineNumber ==
    \A i \in 1..Len(ScanSent) :
        ScanSent[i].line_number
          = 1 + Cardinality({k \in 1..ScanSent[i].pos : ScanMmap[k] = LF})

\* a finished scan with a pattern that holds a newline: a first occurrence
\* at offset 0 on line 1 and a later one on a later line
C6_Witness ==
    /\ ScanDone
    /\ \E k \in 1..Len(ScanAc.pattern) : ScanAc.pattern[k] = LF
    /\ Len(ScanSent) >= 2
    /\ ScanSent[1].pos = 0 /\ ScanSent[1].line_number = 1
    /\ ScanSent[2].line_number > 1

(***************************************************************************)
(* C7: the line_text of every ContentMatch is the decoded enclosing line   *)
(* of the start of its occurrence: the bytes from just after the last      *)
(* newline before the start (or the file start) up to the first newline at *)
(* or after the start (or the file end), one trailing CR removed, each     *)
(* byte that is not valid UTF-8 decoded as U+FFFD; it holds no newline,    *)
(* and line_start <= match_start <= line_end.                              *)
(***************************************************************************)
C7_LineText ==
    \A i \in 1..Len(ScanSent) :
        LET p == ScanSent[i].pos
            n == Len(ScanMmap)
            text == ScanSent[i].line_text
            \* the offsets from which no newline lies before p
            ls == Min({a \in 0..p : \A k \in (a + 1)..p : ScanMmap[k] # LF})
            \* the offsets up to which no newline lies from p on
            le == Max({b \in p..n : \A k \in (p + 1)..b : ScanMmap[k] # LF})
            cr == le > ls /\ ScanMmap[le] = CR
            end == IF cr THEN le - 1 ELSE le
        IN  /\ line_start(ScanMmap, p) = ls
            /\ line_end(ScanMmap, p) = le
            /\ ls <= p /\ p <= le
            /\ ls = 0 \/ ScanMmap[ls] = LF
            /\ le = n \/ ScanMmap[le + 1] = LF
            /\ Len(text) = end - ls
            /\ \A k \in 1..Len(text) :
                  /\ text[k] # LF
                  /\ text[k] = IF ScanMmap[ls + k] < 128 THEN ScanMmap[ls + k]
                               ELSE 65533

\* an occurrence on a line that ends in CR LF and holds an invalid byte: the
\* CR is dropped, the byte replaced
C7_Witness ==
    \E i \in 1..Len(ScanSent) :
        LET p == ScanSent[i].pos
            text == ScanSent[i].line_text
        IN  /\ line_end(ScanMmap, p) < Len(ScanMmap)
            /\ line_end(ScanMmap, p) > 0
            /\ ScanMmap[line_end(ScanMmap, p)] = CR
            /\ Len(text) = 2
            /\ \E k \in 1..Len(text) : text[k] = 65533

(***************************************************************************)
(* What the consumer receives of run r: the match events in results, which *)
(* execute_search clears for each run it dispatches, then the match events *)
(* still queued.                                                           *)
(***************************************************************************)
LastStarted ==
    LET S == {r \in Runs : run[r].started} IN IF S = {} THEN 0 ELSE Max(S)

Stream(r) ==
    (IF r = LastStarted THEN app.results ELSE <<>>)
        \o SelectSeq(chan[r].queue, IsMatchEvent)

(***************************************************************************)
(* C1: when a run has ended after N callback invocations, exactly          *)
(* floor(N/50) ProgressUpdate(50) events were sent, the deltas received    *)
(* and queued sum to floor(N/50)*50, and before the end no more than that  *)
(* was sent; the remainder below the next multiple of 50 is never sent.    *)
(***************************************************************************)
C1_ProgressAccounting ==
    \A r \in Runs :
        LET N == run[r].scanned_count
        IN  /\ run[r].progress_sent <= N \div ProgressBatch
            /\ run[r].returned =>
                 /\ run[r].progress_sent = N \div ProgressBatch
                 /\ r = LastStarted =>
                      app.file_scanned + SumDelta(chan[r].queue)
                        = (N \div ProgressBatch) * ProgressBatch

\* a run that ended after more than 50 visits, not a multiple of 50
C1_Witness ==
    \E r \in Runs :
        /\ run[r].returned
        /\ run[r].scanned_count > ProgressBatch
        /\ run[r].scanned_count % ProgressBatch # 0
        /\ run[r].progress_sent = 1
        /\ app.file_scanned = ProgressBatch

(***************************************************************************)
(* C2: a thread whose check read the flag as true is outside the callback  *)
(* for good (the walker is quitting), so it sends no match event for that   *)
(* entry or a later one; and the entries a thread sent match events for     *)
(* while the flag was set are at most one, the entry it was past the check  *)
(* for.                                                                    *)
(***************************************************************************)
C2_NoMatchPastCheck ==
    \A r \in Runs, w \in Workers :
        /\ wk[r][w].saw_cancel =>
             /\ wk[r][w].pc \in {"idle", "done"}
             /\ run[r].quit_now
             /\ wk[r][w].entry \notin wk[r][w].late
        /\ Cardinality(wk[r][w].late) <= 1
        /\ (flag[run[r].thread_token] /\ wk[r][w].pc \in {"entry", "scan"})
             => wk[r][w].late \subseteq {wk[r][w].entry}

\* one thread sent match events for its entry after the flag was set, and a
\* thread has read the flag as true
C2_Witness ==
    \E r \in Runs, w \in Workers, v \in Workers :
        /\ wk[r][w].late # {}
        /\ wk[r][v].saw_cancel
        /\ \E i \in 1..Len(Stream(r)) : Stream(r)[i].path \in wk[r][w].late

(***************************************************************************)
(* C4: in what the consumer receives of a run, the ContentMatch events of  *)
(* one file are in strictly ascending order of position, and so of         *)
(* non-decreasing line number, however the events of other files fall      *)
(* between them.                                                           *)
(***************************************************************************)
C4_FileOrder ==
    \A r \in Runs :
        LET s == Stream(r)
        IN  \A i, j \in 1..Len(s) :
                (/\ i < j
                 /\ s[i].type = "ContentMatch" /\ s[j].type = "ContentMatch"
                 /\ s[i].path = s[j].path)
                => /\ s[i].pos < s[j].pos
                   /\ s[i].line_number <= s[j].line_number

\* the consumer holds two ContentMatch events of one file with a
\* ContentMatch of another file between them
C4_Witness ==
    LET s == app.results
    IN  \E i, j, k \in 1..Len(s) :
            /\ i < j /\ j < k
            /\ s[i].type = "ContentMatch" /\ s[j].type = "ContentMatch"
            /\ s[k].type = "ContentMatch"
            /\ s[i].path = s[k].path /\ s[j].path # s[i].path

(***************************************************************************)
(* AppSpec: the program while the user starts up to two searches, the      *)
(* second possibly while the threads of the first still run, over a root   *)
(* directory "r" that holds the file a = "a".  FairSpec adds what the      *)
(* scheduling gives: every walker thread that can step does, run_search    *)
(* returns once its threads have ended, and a requested repaint brings an  *)
(* update.  Clicks are never forced.                                       *)
(***************************************************************************)
TinyTree ==
    <<Entry(0, <<114>>, "dir", <<>>, TRUE), Entry(1, <<97>>, "file", <<97>>, TRUE)>>

\* text "a" and file name "a"; nothing typed
TinyTyped ==
    { Typed(<<97>>, <<97>>, <<>>, FALSE, DefaultMaxDepth),
      Typed(<<>>, <<>>, <<>>, FALSE, DefaultMaxDepth) }

AppInit == InitWith({TinyTree})

AppNext ==
    \/ UpdateIdle
    \/ UpdateCancel
    \/ \E k \in Runs, typed \in TinyTyped : UpdateStart(k, typed)
    \/ \E r \in Runs, w \in Workers : WorkerStep(r, w)
    \/ \E r \in Runs : Return(r)

AppSpec == AppInit /\ [][AppNext]_vars

Fairness ==
    /\ WF_vars(RepaintUpdate)
    /\ \A r \in Runs : WF_vars(Return(r))
    /\ \A r \in Runs, w \in Workers : WF_vars(WorkerStep(r, w))

FairSpec == AppSpec /\ Fairness

\* the user clicked Cancel during run r and the app still holds its receiver
ClickedCancel(r) ==
    /\ run[r].started
    /\ flag[run[r].thread_token]
    /\ app.receiver = Some(r) /\ ~app.is_searching

\* a later execute_search has replaced the receiver of run r
Superseded(r) == \E k \in Runs : k > r /\ run[k].started

\* every thread of run r has ended, run_search has returned, tx is dropped
Closed(r) ==
    /\ \A w \in Workers : wk[r][w].pc = "done"
    /\ run[r].returned
    /\ ~chan[r].tx

(***************************************************************************)
(* C3 as stated: after a click on Cancel during a run, eventually every    *)
(* thread has ended, run_search has returned, its sender is dropped and a  *)
(* poll of the consumer has observed the channel as disconnected.          *)
(***************************************************************************)
C3_ConsumerSeesClose ==
    \A r \in Runs : ClickedCancel(r) ~> (Closed(r) /\ chan[r].disconnected)

(***************************************************************************)
(* C3 as amended: after a click on Cancel during a run, eventually every   *)
(* thread has ended, run_search has returned and its sender is dropped,    *)
(* and a poll of the consumer has observed the channel as disconnected     *)
(* unless a new search has replaced the receiver first.                    *)
(***************************************************************************)
C3_StreamCloses ==
    \A r \in Runs :
        ClickedCancel(r) ~> (Closed(r) /\ (chan[r].disconnected \/ Superseded(r)))

\* a run that a callback quit has ended and the consumer has seen its
\* channel disconnected
C3_Witness ==
    \E r \in Runs :
        /\ Closed(r) /\ run[r].quit_now
        /\ \E w \in Workers : wk[r][w].saw_cancel
        /\ chan[r].disconnected /\ app.receiver = None

(***************************************************************************)
(* FileSpec: one search over a root that is a single regular file, for     *)
(* every combination of what the user types with the file's name (with an  *)
(* extension in either case, without one, with an empty one) and content   *)
(* (text, a NUL before or after the query, a NUL at offsets 1023 and 1024  *)
(* of a long file).                                                        *)
(***************************************************************************)
Pad(n) == [i \in 1..n |-> 98]

FileContents ==
    { <<97>>, <<NUL, 97>>, <<97, NUL>>,
      Pad(ProbeLen - 1) \o <<NUL, 97>>, Pad(ProbeLen) \o <<NUL, 97>> }

\* f.txt, f, f.MD, "f."
FileNames == { <<102, 46, 116, 120, 116>>, <<102>>, <<102, 46, 77, 68>>, <<102, 46>> }

\* text: "", " ", "a"; file name: "", "f", "z"; types: "", " ", "txt", "md, TXT"
FileTyped ==
    { Typed(t, f, x, FALSE, DefaultMaxDepth) :
        t \in {<<>>, <<32>>, <<97>>},
        f \in {<<>>, <<102>>, <<122>>},
        x \in {<<>>, <<32>>, <<116, 120, 116>>, <<109, 100, Comma, 32, 84, 88, 84>>} }

FileInit ==
    InitWith({ <<Entry(0, name, "file", data, TRUE)>> :
                 name \in FileNames, data \in FileContents })

FileNext ==
    \/ UpdateIdle
    \/ UpdateCancel
    \/ \E typed \in FileTyped : UpdateStart(1, typed)
    \/ \E w \in Workers : WorkerStep(1, w)
    \/ Return(1)

FileSpec == FileInit /\ [][FileNext]_vars

\* the run the fields of the app were last typed for
Latest(r) == run[r].started /\ app.cancel_token = r

\* run r has visited every entry the walker yields: it returned, not by a
\* panic, and no callback returned Quit
Complete(r) == run[r].returned /\ ~run[r].quit_now /\ ~run[r].panicked

ContentEvents(r, e) ==
    SelectSeq(Stream(r), LAMBDA ev : ev.type = "ContentMatch" /\ ev.path = e)

(***************************************************************************)
(* C8: no ContentMatch is ever sent for a file with a NUL byte among its   *)
(* first min(1024, length) bytes; and a file that is opened, can be mapped *)
(* and has no NUL before offset 1024 is scanned, so that in a complete run *)
(* its occurrences are reported whatever NUL bytes follow.                 *)
(***************************************************************************)
C8_BinaryProbe ==
    \A r \in Runs :
        /\ \A i \in 1..Len(Stream(r)) :
              Stream(r)[i].type = "ContentMatch" =>
                 \A k \in 1..Len(fs[Stream(r)[i].path].data) :
                    k <= ProbeLen => fs[Stream(r)[i].path].data[k] # NUL
        /\ (Complete(r) /\ r = LastStarted) =>
              \A e \in run[r].opened :
                 (/\ fs[e].openable /\ fs[e].mappable
                  /\ \A k \in 1..Len(fs[e].data) :
                        k <= ProbeLen => fs[e].data[k] # NUL
                  /\ is_match(Unwrap(run[r].conf.text_matcher), fs[e].data))
                 => Len(ContentEvents(r, e)) > 0

\* a complete run that reported an occurrence in a file with a NUL byte at
\* offset 1024
C8_Witness ==
    \E r \in Runs, e \in DOMAIN fs :
        /\ Complete(r)
        /\ Len(fs[e].data) > ProbeLen
        /\ fs[e].data[ProbeLen + 1] = NUL
        /\ Len(ContentEvents(r, e)) > 0

(***************************************************************************)
(* C9: in a run started with the text field empty, or with no text query,  *)
(* no file is opened, process_file_content is never called and no          *)
(* ContentMatch is sent.                                                   *)
(***************************************************************************)
C9_NoTextNoScan ==
    \A r \in Runs :
        (run[r].started /\ (run[r].conf.text_matcher = None
                            \/ (Latest(r) /\ app.search_term = <<>>)))
        => /\ run[r].conf.text_matcher = None
           /\ run[r].opened = {}
           /\ \A w \in Workers : wk[r][w].pc # "scan"
           /\ \A i \in 1..Len(chan[r].queue) : chan[r].queue[i].type # "ContentMatch"
           /\ \A i \in 1..Len(Stream(r)) : Stream(r)[i].type # "ContentMatch"

\* a complete run with an empty text field over a file that holds "a" and
\* whose name matched the file name typed
C9_Witness ==
    \E r \in Runs :
        /\ Complete(r) /\ Latest(r)
        /\ app.search_term = <<>>
        /\ is_match([pattern |-> <<97>>, ignore_case |-> FALSE], fs[1].data)
        /\ Len(app.results) = 1 /\ app.results[1].type = "FileNameMatch"

(***************************************************************************)
(* C10: in a run started with file_types absent, empty or only whitespace  *)
(* the config holds no allow-list, and when the run is complete every      *)
(* regular file that passed the name test, under a text query, has been    *)
(* opened for scanning, whatever its extension and without one.            *)
(***************************************************************************)
C10_BlankTypesNoFilter ==
    \A r \in Runs :
        (Latest(r) /\ (app.file_types = None \/ trim(Unwrap(app.file_types)) = <<>>))
        => /\ run[r].conf.allowed_exts = None
           /\ Complete(r) =>
                \A e \in DOMAIN fs :
                   (/\ fs[e].kind = "file"
                    /\ run[r].conf.text_matcher # None
                    /\ file_name_match(run[r].conf, fs[e].name))
                   => e \in run[r].opened

\* a complete run with file_types " " that reported an occurrence in a file
\* without an extension
C10_Witness ==
    \E r \in Runs :
        /\ Complete(r) /\ Latest(r)
        /\ app.file_types = Some(<<32>>)
        /\ extension(fs[1].name) = None
        /\ Len(ContentEvents(r, 1)) > 0

(***************************************************************************)
(* C11: every run_search call runs with a flag of its own, allocated by    *)
(* the execute_search that dispatches it: in the step that dispatches run  *)
(* k its flag is false and the flag the app pointed to before is true and  *)
(* another one; a flag that is true stays true; a flag becomes true only   *)
(* while the app points to it (a click on Cancel during its search, or the *)
(* next execute_search), so never through a cancellation of an earlier     *)
(* run; a thread quits only on the flag of its own run; and of two runs    *)
(* dispatched at most one has its flag false.                              *)
(***************************************************************************)
C11_FreshFlag ==
    /\ [](\A r, s \in Runs :
            (run[r].started /\ run[s].started /\ r # s)
            => /\ run[r].thread_token # run[s].thread_token
               /\ flag[run[r].thread_token] \/ flag[run[s].thread_token])
    /\ [](\A r \in Runs, w \in Workers :
            wk[r][w].saw_cancel => flag[run[r].thread_token])
    /\ [][ /\ \A k \in Runs :
                (~run[k].started /\ run'[k].started)
                => /\ ~flag'[run'[k].thread_token]
                   /\ app'.cancel_token = run'[k].thread_token
                   /\ app.cancel_token # run'[k].thread_token
                   /\ flag'[app.cancel_token]
           /\ \A k \in DOMAIN flag :
                /\ flag[k] => flag'[k]
                /\ (~flag[k] /\ flag'[k]) => app.cancel_token = k ]_vars

\* the second search runs while the cancelled first one has not returned: a
\* thread of the first has quit on its flag, a thread of the second has read
\* its own flag as false and gone on
C11_Witness ==
    /\ Active(1) /\ Active(2)
    /\ flag[run[1].thread_token] /\ ~flag[run[2].thread_token]
    /\ \E w \in Workers : wk[1][w].saw_cancel
    /\ \E w \in Workers : wk[2][w].pc \in {"entry", "scan"}

(***************************************************************************)
(* C12: while the flag of a dispatched run is false (no click on Cancel,   *)
(* no later execute_search), the app points to that run; until a poll has  *)
(* returned Disconnected the app is searching and holds the run's          *)
(* receiver; once a poll has returned Disconnected, run_search has         *)
(* returned, its sender is dropped, the channel is empty, the app is no    *)
(* longer searching, and results holds every match event the run sent.     *)
(* Under fair scheduling a dispatched run is eventually cancelled,         *)
(* superseded, or seen disconnected.                                       *)
(***************************************************************************)
C12_ClosureIsCompletion ==
    /\ [](\A r \in Runs :
            (run[r].started /\ ~flag[run[r].thread_token])
            => /\ app.cancel_token = run[r].thread_token
               /\ IF chan[r].disconnected
                  THEN /\ run[r].returned /\ ~chan[r].tx
                       /\ chan[r].queue = <<>>
                       /\ ~app.is_searching /\ app.receiver = None
                       /\ Len(app.results) = chan[r].sent
                       /\ \A i \in 1..Len(app.results) :
                             IsMatchEvent(app.results[i])
                  ELSE /\ app.is_searching /\ app.receiver = Some(r)
                       /\ chan[r].rx
                       /\ Len(app.results) + Len(chan[r].queue) = chan[r].sent)
    /\ \A r \in Runs :
          run[r].started ~> (chan[r].disconnected \/ flag[run[r].thread_token])

\* a run never cancelled has sent a FileNameMatch and a ContentMatch, and
\* the consumer has received both and then seen the channel disconnected
C12_Witness ==
    \E r \in Runs :
        /\ run[r].started /\ ~flag[run[r].thread_token]
        /\ chan[r].disconnected /\ ~app.is_searching
        /\ chan[r].sent = 2
        /\ Len(app.results) = 2

(***************************************************************************)
(* The match events run r has sent for entry e that the consumer holds or  *)
(* will receive.                                                           *)
(***************************************************************************)
EventsOf(r, e) == SelectSeq(Stream(r), LAMBDA ev : ev.path = e)

HasEvent(r, e, type) ==
    \E i \in 1..Len(EventsOf(r, e)) : EventsOf(r, e)[i].type = type

\* the directories above entry e
RECURSIVE Ancestors(_, _)
Ancestors(t, e) ==
    IF t[e].parent = 0 THEN {} ELSE {t[e].parent} \cup Ancestors(t, t[e].parent)

(***************************************************************************)
(* DepthSpec: one search, with max_depth set to 0, 1, 2 or 3, over a tree  *)
(* that holds a file "a" = "a" and a directory "a" at each depth down to 3: *)
(*    a/  1            depth 0                                             *)
(*      a  2,  a/  3   depth 1                                             *)
(*        a  4,  a/  5 depth 2                                             *)
(*          a  6       depth 3                                             *)
(***************************************************************************)
DepthTree ==
    << Entry(0, <<97>>, "dir", <<>>, TRUE),
       Entry(1, <<97>>, "file", <<97>>, TRUE),
       Entry(1, <<97>>, "dir", <<>>, TRUE),
       Entry(3, <<97>>, "file", <<97>>, TRUE),
       Entry(3, <<97>>, "dir", <<>>, TRUE),
       Entry(5, <<97>>, "file", <<97>>, TRUE) >>

\* the values the user sets max_depth to (the field ranges over 0..5000)
DepthsTyped == 0..3

\* text "a" and file name "a"
DepthTyped == { Typed(<<97>>, <<97>>, <<>>, FALSE, d) : d \in DepthsTyped }

DepthInit == InitWith({DepthTree})

DepthNext ==
    \/ UpdateIdle
    \/ UpdateCancel
    \/ \E typed \in DepthTyped : UpdateStart(1, typed)
    \/ \E w \in Workers : WorkerStep(1, w)
    \/ Return(1)

DepthSpec == DepthInit /\ [][DepthNext]_vars

(***************************************************************************)
(* C13: no FileNameMatch and no ContentMatch of a run carries the path of  *)
(* an entry deeper than the run's max_depth (the root is at depth 0), no   *)
(* callback is ever invoked on such an entry, and in a complete run every  *)
(* entry at a depth up to max_depth, max_depth included, is matched: a     *)
(* FileNameMatch for its name and, for a file, a ContentMatch.             *)
(***************************************************************************)
C13_DepthBound ==
    \A r \in Runs :
        /\ \A i \in 1..Len(Stream(r)) :
              Depth(fs, Stream(r)[i].path) <= run[r].max_depth
        /\ \A i \in 1..Len(chan[r].queue) :
              IsMatchEvent(chan[r].queue[i])
              => Depth(fs, chan[r].queue[i].path) <= run[r].max_depth
        /\ \A w \in Workers :
              wk[r][w].pc \in {"check", "entry", "scan"}
              => Depth(fs, wk[r][w].entry) <= run[r].max_depth
        /\ (Complete(r) /\ r = LastStarted) =>
              \A e \in DOMAIN fs :
                 (/\ Depth(fs, e) <= run[r].max_depth
                  /\ \A d \in Ancestors(fs, e) :
                        fs[d].kind = "dir"
                        /\ early_return(fs[d], Depth(fs, d)) = None
                  /\ early_return(fs[e], Depth(fs, e)) = None)
                 => /\ file_name_match(run[r].conf, fs[e].name)
                         /\ run[r].conf.file_matcher # None
                       => HasEvent(r, e, "FileNameMatch")
                    /\ content_scanned(run[r].conf, fs[e])
                         /\ is_match(Unwrap(run[r].conf.text_matcher), fs[e].data)
                       => HasEvent(r, e, "ContentMatch")

\* a complete run with max_depth 2: the file and the directory at depth 2
\* are matched, the file at depth 3 is not
C13_Witness ==
    \E r \in Runs :
        /\ Complete(r) /\ run[r].max_depth = 2
        /\ chan[r].queue = <<>>
        /\ HasEvent(r, 4, "FileNameMatch") /\ HasEvent(r, 4, "ContentMatch")
        /\ HasEvent(r, 5, "FileNameMatch")
        /\ Depth(fs, 6) = 3 /\ EventsOf(r, 6) = <<>>

(***************************************************************************)
(* ErrSpec: one search for the text "a" and the file name "a" over a root  *)
(* directory whose entries, in the order the threads take them, are a file *)
(* that cannot be mapped, a file that cannot be opened, an entry the       *)
(* walker yields an Err for, and a readable file, each named "a" and       *)
(* holding "a":                                                            *)
(*    r/  1                                                                *)
(*      a  2   a (Err)  3   a (open fails)  4   a (map fails)  5           *)
(***************************************************************************)
ErrTree ==
    << Entry(0, <<114>>, "dir", <<>>, TRUE),
       Entry(1, <<97>>, "file", <<97>>, TRUE),
       Entry(1, <<97>>, "err", <<97>>, FALSE),
       Entry(1, <<97>>, "file", <<97>>, FALSE),
       Unmappable(Entry(1, <<97>>, "file", <<97>>, TRUE)) >>

ErrTyped == { Typed(<<97>>, <<97>>, <<>>, FALSE, DefaultMaxDepth) }

ErrInit == InitWith({ErrTree})

ErrNext ==
    \/ UpdateIdle
    \/ UpdateCancel
    \/ \E typed \in ErrTyped : UpdateStart(1, typed)
    \/ \E w \in Workers : WorkerStep(1, w)
    \/ Return(1)

ErrSpec == ErrInit /\ [][ErrNext]_vars

(***************************************************************************)
(* C14: a run sends no event for an entry the walker yielded an Err for,   *)
(* and no event other than the three variants of SearchResult; it sends no *)
(* ContentMatch for a file that fails to open or to map; its walk is cut   *)
(* short only by its cancellation flag; and a complete run has invoked the *)
(* callback on every entry of the tree and reported every file that opens  *)
(* and maps, with a FileNameMatch also for the files that do not.          *)
(***************************************************************************)
C14_ErrorsAreSkipped ==
    \A r \in Runs :
        /\ \A i \in 1..Len(chan[r].queue) :
              /\ chan[r].queue[i].type
                   \in {"ContentMatch", "FileNameMatch", "ProgressUpdate"}
              /\ IsMatchEvent(chan[r].queue[i])
                 => fs[chan[r].queue[i].path].kind # "err"
        /\ \A i \in 1..Len(Stream(r)) :
              LET ev == Stream(r)[i]
              IN  /\ IsMatchEvent(ev)
                  /\ fs[ev.path].kind # "err"
                  /\ ev.type = "ContentMatch"
                     => fs[ev.path].openable /\ fs[ev.path].mappable
        /\ \A w \in Workers :
              wk[r][w].pc = "scan"
              => fs[wk[r][w].entry].openable /\ fs[wk[r][w].entry].mappable
        /\ run[r].quit_now => flag[run[r].thread_token]
        /\ (Complete(r) /\ r = LastStarted) =>
              /\ run[r].scanned_count = Cardinality(DOMAIN fs)
              /\ \A e \in DOMAIN fs :
                    fs[e].kind = "file" =>
                       /\ HasEvent(r, e, "FileNameMatch")
                       /\ HasEvent(r, e, "ContentMatch")
                          <=> (fs[e].openable /\ fs[e].mappable)

\* a complete run: the callback was invoked five times, the readable file
\* is reported in full, the Err entry not at all, the two other files by
\* name only
C14_Witness ==
    \E r \in Runs :
        /\ Complete(r)
        /\ chan[r].queue = <<>>
        /\ run[r].scanned_count = 5
        /\ HasEvent(r, 2, "FileNameMatch") /\ HasEvent(r, 2, "ContentMatch")
        /\ EventsOf(r, 3) = <<>>
        /\ Len(EventsOf(r, 4)) = 1 /\ HasEvent(r, 4, "FileNameMatch")
        /\ Len(EventsOf(r, 5)) = 1 /\ HasEvent(r, 5, "FileNameMatch")

(***************************************************************************)
(* BuildSpec: one search over the root directory "r" holding the file      *)
(* a = "a", started with the text "a" and the file name "a", or with one   *)
(* of the two replaced by a pattern too long for the automaton to be       *)
(* built.                                                                  *)
(***************************************************************************)
LongPattern == [i \in 1..(BuildLimit + 1) |-> 97]

BuildTyped ==
    { Typed(<<97>>, <<97>>, <<>>, FALSE, DefaultMaxDepth),
      Typed(LongPattern, <<97>>, <<>>, FALSE, DefaultMaxDepth),
      Typed(<<97>>, LongPattern, <<>>, FALSE, DefaultMaxDepth) }

BuildInit == InitWith({TinyTree})

BuildNext ==
    \/ UpdateIdle
    \/ UpdateCancel
    \/ \E typed \in BuildTyped : UpdateStart(1, typed)
    \/ \E w \in Workers : WorkerStep(1, w)
    \/ Return(1)

BuildSpec == BuildInit /\ [][BuildNext]_vars

\* the queries run r was dispatched with, and whether a matcher failed to
\* build for one of them
BuildFailed(r) ==
    /\ run[r].started /\ app.cancel_token = run[r].thread_token
    /\ build_fails(SearchOptions(app).text_query)
       \/ build_fails(SearchOptions(app).file_query)

\* how the call of run_search ended, as its caller can tell: it returns (),
\* so it ends "ok" or in a "panic", and has no way to end in an "err"
Outcome(r) ==
    IF ~run[r].returned THEN "running"
    ELSE IF run[r].panicked THEN "panic" ELSE "ok"

(***************************************************************************)
(* C15 as stated: when the text or the file name matcher cannot be built,  *)
(* no event is ever sent on the run's channel, no thread of the walker     *)
(* ever runs, and the start operation ends in an error that its caller     *)
(* receives: run_search ends in an error outcome and the app is not left   *)
(* searching.                                                              *)
(***************************************************************************)
C15_FailureReported ==
    \A r \in Runs :
        BuildFailed(r) =>
           /\ chan[r].queue = <<>> /\ chan[r].sent = 0
           /\ run[r].scanned_count = 0
           /\ \A w \in Workers : wk[r][w].pc = "idle"
           /\ Outcome(r) = "err"
           /\ ~app.is_searching

(***************************************************************************)
(* MatchSpec: one search over a root directory that holds a directory      *)
(* named like a file, and files with a lower-case extension, an upper-case *)
(* one and none, each with the content "a" (the directory too, so that a   *)
(* scan of it, were one made, would report an occurrence):                 *)
(*    r/  1                                                                *)
(*      a.txt/  2    a.txt  3    a.MD  4    a  5                           *)
(* started with the text "a" under the types " TXT,md"; the text "a" and   *)
(* the file name "t"; the text "a", the file name "a" and the types "txt"; *)
(* or the file name "a" and the types "txt" without a text.                *)
(***************************************************************************)
NameATxt == <<97, 46, 116, 120, 116>>

MatchTree ==
    << Entry(0, <<114>>, "dir", <<>>, TRUE),
       Entry(1, NameATxt, "dir", <<97>>, TRUE),
       Entry(1, NameATxt, "file", <<97>>, TRUE),
       Entry(1, <<97, 46, 77, 68>>, "file", <<97>>, TRUE),
       Entry(1, <<97>>, "file", <<97>>, TRUE) >>

MatchTyped ==
    { Typed(<<97>>, <<>>, <<32, 84, 88, 84, Comma, 109, 100>>, FALSE,
            DefaultMaxDepth),
      Typed(<<97>>, <<116>>, <<>>, FALSE, DefaultMaxDepth),
      Typed(<<97>>, <<97>>, <<116, 120, 116>>, FALSE, DefaultMaxDepth),
      Typed(<<>>, <<97>>, <<116, 120, 116>>, FALSE, DefaultMaxDepth) }

MatchInit == InitWith({MatchTree})

MatchNext ==
    \/ UpdateIdle
    \/ UpdateCancel
    \/ \E typed \in MatchTyped : UpdateStart(1, typed)
    \/ \E w \in Workers : WorkerStep(1, w)
    \/ Return(1)

MatchSpec == MatchInit /\ [][MatchNext]_vars

\* the four conditions for entry e, read off the fields the run was started
\* with: the file name typed, when not blank, occurs in the name of e; e is
\* a regular file; the text typed is not blank; and the types typed, when
\* not blank, hold a token that, trimmed and lower-cased, is the lower-cased
\* extension of e
NamePassed(e) ==
    trim(app.file_name) = <<>>
    \/ is_match([pattern |-> app.file_name, ignore_case |-> app.ignore_case],
                fs[e].name)

TextConfigured == trim(app.search_term) # <<>>

ExtAccepted(e) ==
    LET types == Unwrap(app.file_types)
    IN  trim(types) = <<>>
        \/ /\ extension(fs[e].name) # None
           /\ \E token \in split(types) :
                 to_lowercase(trim(token))
                   = to_lowercase(Unwrap(extension(fs[e].name)))

(***************************************************************************)
(* C16: a ContentMatch is sent for an entry only if its file name test     *)
(* passed or no file name is configured, it is a regular file, a text      *)
(* matcher is configured, and the allow-list, if any, holds its lower-     *)
(* cased extension (so it has one); a complete run sends one for every     *)
(* readable entry that meets the four and holds the text; and it sends a   *)
(* FileNameMatch for every entry whose name holds the file name typed,     *)
(* whatever the allow-list.                                                *)
(***************************************************************************)
C16_FourConditions ==
    \A r \in Runs :
        Latest(r) =>
           /\ \A i \in 1..Len(Stream(r)) :
                 Stream(r)[i].type = "ContentMatch" =>
                    LET e == Stream(r)[i].path
                    IN  /\ NamePassed(e)
                        /\ fs[e].kind = "file"
                        /\ TextConfigured
                        /\ ExtAccepted(e)
           /\ Complete(r) =>
                 \A e \in DOMAIN fs :
                    /\ (/\ NamePassed(e) /\ fs[e].kind = "file"
                        /\ TextConfigured /\ ExtAccepted(e)
                        /\ fs[e].openable /\ fs[e].mappable
                        /\ is_match([pattern |-> app.search_term,
                                     ignore_case |-> app.ignore_case], fs[e].data))
                       => HasEvent(r, e, "ContentMatch")
                    /\ (trim(app.file_name) # <<>> /\ NamePassed(e))
                       => HasEvent(r, e, "FileNameMatch")

\* a complete run for the text "a", the file name "a" and the types "txt":
\* every entry is reported by name, a.txt alone by content
C16_Witness ==
    \E r \in Runs :
        /\ Complete(r) /\ Latest(r)
        /\ chan[r].queue = <<>>
        /\ app.file_types = Some(<<116, 120, 116>>) /\ TextConfigured
        /\ \A e \in 2..5 : HasEvent(r, e, "FileNameMatch")
        /\ HasEvent(r, 3, "ContentMatch")
        /\ \A e \in {2, 4, 5} : ~HasEvent(r, e, "ContentMatch")

(***************************************************************************)
(* SkipSpec: one search for the text "a", with the file name "a" or none,  *)
(* over a root directory named like an entry of the skip-list, holding a   *)
(* directory and a file of the skip-list and a file that is not:           *)
(*    AppData/  1                                                          *)
(*      AppData/  2        Temp = "a"  4        a = "a"  5                 *)
(*        a.txt = "a"  3                                                   *)
(***************************************************************************)
NameAppData == <<65, 112, 112, 68, 97, 116, 97>>
NameTemp == <<84, 101, 109, 112>>

SkipTree ==
    << Entry(0, NameAppData, "dir", <<>>, TRUE),
       Entry(1, NameAppData, "dir", <<>>, TRUE),
       Entry(2, NameATxt, "file", <<97>>, TRUE),
       Entry(1, NameTemp, "file", <<97>>, TRUE),
       Entry(1, <<97>>, "file", <<97>>, TRUE) >>

SkipTyped ==
    { Typed(<<97>>, <<97>>, <<>>, FALSE, DefaultMaxDepth),
      Typed(<<97>>, <<>>, <<>>, FALSE, DefaultMaxDepth) }

SkipInit == InitWith({SkipTree})

SkipNext ==
    \/ UpdateIdle
    \/ UpdateCancel
    \/ \E typed \in SkipTyped : UpdateStart(1, typed)
    \/ \E w \in Workers : WorkerStep(1, w)
    \/ Return(1)

SkipSpec == SkipInit /\ [][SkipNext]_vars

\* entry e is below the root and named in the skip-list, or lies under such
\* an entry
Pruned(e) ==
    \E d \in {e} \cup Ancestors(fs, e) :
        fs[d].parent # 0 /\ fs[d].name \in SkipNames

(***************************************************************************)
(* C17: no run sends a FileNameMatch or a ContentMatch for an entry that   *)
(* is below the root and named in the skip-list, or for anything under     *)
(* such an entry, and the callback is never invoked under one; the root is *)
(* matched whatever its name: a complete run reports, by name and by       *)
(* content, every entry that is not pruned, the root included.             *)
(***************************************************************************)
C17_SkipListPrunes ==
    \A r \in Runs :
        /\ \A i \in 1..Len(Stream(r)) : ~Pruned(Stream(r)[i].path)
        /\ \A i \in 1..Len(chan[r].queue) :
              IsMatchEvent(chan[r].queue[i]) => ~Pruned(chan[r].queue[i].path)
        /\ \A w \in Workers :
              wk[r][w].pc \in {"check", "entry", "scan"}
              => \A d \in Ancestors(fs, wk[r][w].entry) : ~Pruned(d)
        /\ (Complete(r) /\ Latest(r)) =>
              \A e \in DOMAIN fs :
                 ~Pruned(e) =>
                    /\ (trim(app.file_name) # <<>> /\ NamePassed(e))
                       => HasEvent(r, e, "FileNameMatch")
                    /\ (NamePassed(e) /\ fs[e].kind = "file")
                       => HasEvent(r, e, "ContentMatch")

\* a complete run for the file name "a": the root AppData is reported by
\* name, the AppData below it and the a.txt inside are not, although both
\* names hold "a"
C17_Witness ==
    \E r \in Runs :
        /\ Complete(r) /\ Latest(r)
        /\ chan[r].queue = <<>>
        /\ app.file_name = <<97>>
        /\ fs[1].name \in SkipNames /\ HasEvent(r, 1, "FileNameMatch")
        /\ fs[2].name \in SkipNames /\ NamePassed(2) /\ EventsOf(r, 2) = <<>>
        /\ NamePassed(3) /\ EventsOf(r, 3) = <<>>
        /\ HasEvent(r, 5, "ContentMatch")

(***************************************************************************)
(* C18: every event in results was sent on the channel of the run          *)
(* dispatched last; the channel of an earlier run has lost its receiver    *)
(* and holds nothing more, and the app does not read it.                   *)
(***************************************************************************)
C18_OnlyNewRun ==
    /\ \A i \in 1..Len(app.results) : app.results[i].sender = LastStarted
    /\ \A r \in Runs :
          (run[r].started /\ r # LastStarted)
          => /\ ~chan[r].rx
             /\ chan[r].queue = <<>>
             /\ app.receiver # Some(r)

\* the consumer holds an event of the second search while a thread of the
\* cancelled first search, past its check, is about to send one
C18_Witness ==
    /\ run[2].started
    /\ Len(app.results) > 0
    /\ app.results[1].sender = 2
    /\ \E w \in Workers :
          /\ wk[1][w].pc = "entry"
          /\ file_name_match(run[1].conf, fs[wk[1][w].entry].name)

(***************************************************************************)
(* CountSpec: two searches over the wide directory, the second started     *)
(* after the first has returned.  Of the first search one schedule is      *)
(* followed: thread 1 visits every entry, thread 2 ends when no work is    *)
(* left, and the consumer polls once run_search has returned.  The second  *)
(* search runs under every interleaving.                                   *)
(***************************************************************************)
CountInit == InitWith({WideTree})

CountNext ==
    \/ \E typed \in WideTyped : UpdateStart(1, typed)
    \/ /\ ~run[1].returned
       /\ \/ WorkerStep(1, 1)
          \/ Progress(1, 1)
          \/ Stop(1, 2)
          \/ Return(1)
    \/ /\ run[1].returned
       /\ \/ UpdateIdle
          \/ UpdateCancel
          \/ \E typed \in WideTyped : UpdateStart(2, typed)
          \/ \E w \in Workers : WorkerStep(2, w) \/ Progress(2, w)
          \/ Return(2)

CountSpec == CountInit /\ [][CountNext]_vars

(***************************************************************************)
(* C19 as stated: while the app reads the channel of the run dispatched    *)
(* last, and after that run's channel has closed, file_scanned is the sum  *)
(* of the ProgressUpdate deltas received from that run (those sent less    *)
(* those still queued), so it never exceeds the number of entries the run  *)
(* has visited: nothing counted during an earlier run is carried over.     *)
(***************************************************************************)
C19_CountPerRun ==
    LastStarted # 0 =>
        LET r == LastStarted
        IN  /\ app.file_scanned
                 = run[r].progress_sent * ProgressBatch - SumDelta(chan[r].queue)
            /\ app.file_scanned <= run[r].scanned_count

(***************************************************************************)
(* C20 as stated: every run execute_search dispatches has a text matcher   *)
(* or a file name matcher, whatever of empty, blank and non-blank the two  *)
(* fields hold; and a first call that returns early, dispatching nothing,  *)
(* leaves results, receiver and is_searching as they were.                 *)
(***************************************************************************)
C20_DispatchNeedsQuery ==
    \A r \in Runs :
        /\ (run[r].started /\ ~run[r].panicked)
           => (run[r].conf.text_matcher # None \/ run[r].conf.file_matcher # None)
        /\ (r = 1 /\ app.cancel_token = r /\ ~run[r].started)
           => /\ app.results = AppDefault.results
              /\ app.receiver = AppDefault.receiver
              /\ app.is_searching = AppDefault.is_searching

=============================================================================
